---- MODULE Spec2Model ----
(***************************************************************************)
(* A model of vibe-skills' registry cache (internal/registry/cache.go) and *)
(* of its installer (internal/installer/installer.go).                     *)
(*                                                                         *)
(* Strings that the code inspects character by character (cache refs) are  *)
(* sequences of Unicode code points; file names are sequences of bytes.    *)
(* Skill names, stacks and relative paths, which the code only compares    *)
(* and joins, are TLA+ strings.                                            *)
(***************************************************************************)
EXTENDS Integers, Sequences, FiniteSets, TLC

VARIABLES
    now,            \* the clock read by time.Now / time.Since
    cacheDirExists, \* whether Cache.dir exists on disk
    cacheFiles,     \* Cache.dir: file name (bytes) -> file
    clast,          \* the most recent cache call and what it returned
    cprev,          \* the cache call before it
    liveFile,       \* history: per file name, the latest successful Set not since cleared
    liveRef,        \* history: per ref, the latest successful Set not since cleared
    regVer,         \* which snapshot of the registry the provider's ref resolves to
    targetExists,   \* whether <baseDir>/.claude/skills exists
    fs,             \* <baseDir>/.claude/skills: skill name -> what is at that path
    ilast,          \* the most recent single call of the installer and its error
    batch,          \* the batch call in progress or just returned
    cacheFile,      \* one cache file as the kernel holds it, block by block
    setters,        \* the Cache.Set calls in progress on that file, per process
    getter          \* the Cache.Get call in progress on that file

raceVars == <<cacheFile, setters, getter>>

cacheVars == <<now, cacheDirExists, cacheFiles, clast, cprev, liveFile, liveRef,
               cacheFile, setters, getter>>

instVars == <<regVer, targetExists, fs, ilast, batch>>

vars == <<now, cacheDirExists, cacheFiles, clast, cprev, liveFile, liveRef,
          regVer, targetExists, fs, ilast, batch,
          cacheFile, setters, getter>>

-----------------------------------------------------------------------------
(* Bounds and constants *)

\* The clock stops at MaxTime.
MaxTime == 3

\* Cache.ttl, scaled from one hour to two ticks.
DefaultCacheTTL == 2

\* The registry has the snapshots 1..MaxVer.
MaxVer == 2

\* At most MaxFaults items of one batch call meet a failing provider or disk.
MaxFaults == 1

-----------------------------------------------------------------------------
(* Refs, runes and bytes *)

\* "m", "a/b", "a\b", "é" (U+00E9, two bytes in UTF-8)
Refs == { <<109>>, <<97, 47, 98>>, <<97, 92, 98>>, <<233>> }

\* Number of bytes of a code point in UTF-8: the distance between two
\* successive indexes of `for i, c := range s`.
RuneLen(c) == IF c < 128 THEN 1 ELSE IF c < 2048 THEN 2 ELSE IF c < 65536 THEN 3 ELSE 4

Zeros(n) == [k \in 1..n |-> 0]

\* One iteration of sanitizeFilename's loop: result[i] is assigned, the other
\* bytes of a multi-byte rune keep make's zero.
SanitizeRune(c) ==
    <<IF c = 47 \/ c = 92 \/ c = 58 THEN 95 ELSE c % 256>> \o Zeros(RuneLen(c) - 1)

RECURSIVE sanitizeFilename(_)
sanitizeFilename(s) ==
    IF s = <<>> THEN <<>> ELSE SanitizeRune(Head(s)) \o sanitizeFilename(Tail(s))

\* ".json"
JsonExt == <<46, 106, 115, 111, 110>>

\* getCachePath for every ref of the model, computed once
CachePaths == [r \in Refs |-> sanitizeFilename(r) \o JsonExt]

\* The file name inside Cache.dir (the directory part is the same for all).
getCachePath(ref) == CachePaths[ref]

FileNames == { getCachePath(r) : r \in Refs }

\* The file names the operating system accepts: it rejects a path that holds
\* a NUL byte (EINVAL).
ValidFileNames == { p \in FileNames : \A i \in 1..Len(p) : p[i] # 0 }

PathOk(p) == p \in ValidFileNames

-----------------------------------------------------------------------------
(* Registry indexes, cache entries and their JSON form *)

NilIndex == [nil |-> TRUE]

\* *RegistryIndex values handed to Set
Indexes == { [version |-> "1.0", skills |-> <<>>],
             [version |-> "1.0", skills |-> <<"code-reviewer", "sqlserver-expert">>] }

\* JSON's null
JsonNull == [null |-> TRUE]

NoMono == 0 - 1

\* time.Now(): a wall clock reading and a monotonic clock reading
TimeNow == [wall |-> now, mono |-> now]

\* The zero time.Time, long before any clock reading
ZeroTime == [wall |-> 0 - 1000000, mono |-> NoMono]

\* time.Since(t): on the monotonic clock when t carries a reading of it
Since(t) == IF t.mono # NoMono THEN now - t.mono ELSE now - t.wall

\* json.MarshalIndent(entry): fetched_at is written as RFC 3339 with nanoseconds,
\* which keeps the wall clock reading and drops the monotonic one
MarshalEntry(entry) ==
    [kind |-> "entry",
     data |-> IF entry.Data = NilIndex THEN JsonNull ELSE entry.Data,
     ref |-> entry.Ref,
     fetched_at |-> entry.FetchedAt.wall]

\* json.Unmarshal(data, &entry)
UnmarshalOk(doc) == doc.kind \in {"entry", "emptyobj"}

Unmarshal(doc) ==
    IF doc.kind = "entry"
    THEN [Data |-> IF doc.data = JsonNull THEN NilIndex ELSE doc.data,
          Ref |-> doc.ref,
          FetchedAt |-> [wall |-> doc.fetched_at, mono |-> NoMono]]
    ELSE [Data |-> NilIndex, Ref |-> <<>>, FetchedAt |-> ZeroTime]

Garbage == [kind |-> "garbage"]
EmptyObject == [kind |-> "emptyobj"]

\* A file of the cache directory: its bytes, and whether this user may open it
File(doc) == [doc |-> doc, perm |-> TRUE]

-----------------------------------------------------------------------------
(* Cache: the calls as functions of the state *)

\* loadEntry: os.ReadFile, then json.Unmarshal
LoadErr(ref) ==
    LET path == getCachePath(ref) IN
    IF ~PathOk(path) THEN "EINVAL"
    ELSE IF path \notin DOMAIN cacheFiles THEN "ENOENT"
    ELSE IF ~cacheFiles[path].perm THEN "EACCES"
    ELSE IF ~UnmarshalOk(cacheFiles[path].doc) THEN "EJSON"
    ELSE "nil"

loadEntry(ref) == Unmarshal(cacheFiles[getCachePath(ref)].doc)

Miss == [data |-> NilIndex, found |-> FALSE]

\* A Get that hands out a stale entry's data
GetResultStaleData(ref) ==
    IF LoadErr(ref) # "nil" THEN Miss
    ELSE [data |-> loadEntry(ref).Data,
          found |-> ~(Since(loadEntry(ref).FetchedAt) > DefaultCacheTTL)]

\* A Get whose entries expire one tick early
GetResultStrict(ref) ==
    IF LoadErr(ref) # "nil" THEN Miss
    ELSE IF Since(loadEntry(ref).FetchedAt) >= DefaultCacheTTL THEN Miss
    ELSE [data |-> loadEntry(ref).Data, found |-> TRUE]

\* A Get that never looks at the age of the entry
GetResultNoTTL(ref) ==
    IF LoadErr(ref) # "nil" THEN Miss
    ELSE [data |-> loadEntry(ref).Data, found |-> TRUE]

\* A Get that takes an entry only when it was stored under the requested ref
GetResultOwnRef(ref) ==
    IF LoadErr(ref) # "nil" THEN Miss
    ELSE IF loadEntry(ref).Ref # ref THEN Miss
    ELSE IF Since(loadEntry(ref).FetchedAt) > DefaultCacheTTL THEN Miss
    ELSE [data |-> loadEntry(ref).Data, found |-> TRUE]

\* Cache.Get's return values
GetResult(ref) ==
    IF LoadErr(ref) # "nil" THEN Miss
    ELSE IF Since(loadEntry(ref).FetchedAt) > DefaultCacheTTL THEN Miss
    ELSE [data |-> loadEntry(ref).Data, found |-> TRUE]

\* saveEntry's error: os.MkdirAll, json.MarshalIndent, os.WriteFile
SaveErr(ref) ==
    LET path == getCachePath(ref) IN
    IF ~PathOk(path) THEN "EINVAL"
    ELSE IF path \in DOMAIN cacheFiles /\ ~cacheFiles[path].perm THEN "EACCES"
    ELSE "nil"

\* A removal that does not mind a file that is not there
RemoveErrForce(ref) == IF ~PathOk(getCachePath(ref)) THEN "EINVAL" ELSE "nil"

\* os.Remove(path)
RemoveErr(ref) ==
    LET path == getCachePath(ref) IN
    IF ~PathOk(path) THEN "EINVAL"
    ELSE IF path \notin DOMAIN cacheFiles THEN "ENOENT"
    ELSE "nil"

WithFile(files, path, file) ==
    [p \in DOMAIN files \cup {path} |-> IF p = path THEN file ELSE files[p]]

\* A removal that takes every file of the directory
Emptied(files, path) == [p \in {} |-> files[p]]

WithoutFile(files, path) == [p \in DOMAIN files \ {path} |-> files[p]]

NoFiles == [p \in {} |-> Garbage]

NoEntry == [set |-> FALSE]

NoCall == [op |-> "none", ref |-> <<>>, data |-> NilIndex, err |-> "nil",
           found |-> FALSE, at |-> 0]

CacheCall(op, ref, data, err, found) ==
    [op |-> op, ref |-> ref, data |-> data, err |-> err, found |-> found,
     at |-> IF op \in {"Get", "Set"} THEN now ELSE 0]

\* What is kept of the call before the last one: a Set, or nothing
Before(call) == IF call.op = "Set" THEN call ELSE NoCall

-----------------------------------------------------------------------------
(* Cache: the actions *)

\* Cache.Get(ref)
Get(ref) ==
    /\ clast' = CacheCall("Get", ref, GetResult(ref).data, "nil", GetResult(ref).found)
    /\ cprev' = Before(clast)
    /\ UNCHANGED <<now, cacheDirExists, cacheFiles, liveFile, liveRef>>
    /\ UNCHANGED instVars
    /\ UNCHANGED raceVars

\* Cache.Set(ref, data): the directory is made before the file is written
Set(ref, data) ==
    LET entry == [Data |-> data, Ref |-> ref, FetchedAt |-> TimeNow]
        path  == getCachePath(ref)
        err   == SaveErr(ref)
    IN  /\ cacheDirExists' = TRUE
        /\ cacheFiles' = IF err = "nil"
                         THEN WithFile(cacheFiles, path, File(MarshalEntry(entry)))
                         ELSE cacheFiles
        /\ clast' = CacheCall("Set", ref, data, err, FALSE)
        /\ cprev' = Before(clast)
        /\ liveFile' = IF err = "nil"
                       THEN [liveFile EXCEPT ![path] = [set |-> TRUE, ref |-> ref,
                                                        data |-> data, at |-> now]]
                       ELSE liveFile
        /\ liveRef' = IF err = "nil"
                      THEN [liveRef EXCEPT ![ref] = [set |-> TRUE, data |-> data]]
                      ELSE liveRef
        /\ UNCHANGED now
        /\ UNCHANGED instVars
        /\ UNCHANGED raceVars

\* A Clear that deletes the entries that have expired and keeps the others
ClearExpired ==
    /\ cacheDirExists' = cacheDirExists
    /\ cacheFiles' = [p \in { q \in DOMAIN cacheFiles :
                               Since(Unmarshal(cacheFiles[q].doc).FetchedAt)
                                   <= DefaultCacheTTL } |-> cacheFiles[p]]
    /\ clast' = CacheCall("Clear", <<>>, NilIndex, "nil", FALSE)
    /\ cprev' = Before(clast)
    /\ UNCHANGED <<now, liveFile, liveRef>>
    /\ UNCHANGED instVars
    /\ UNCHANGED raceVars

\* Cache.Clear(): os.RemoveAll(c.dir), no error when the directory is absent
Clear ==
    /\ cacheDirExists' = FALSE
    /\ cacheFiles' = NoFiles
    /\ clast' = CacheCall("Clear", <<>>, NilIndex, "nil", FALSE)
    /\ cprev' = Before(clast)
    /\ liveFile' = [p \in FileNames |-> NoEntry]
    /\ liveRef' = [r \in Refs |-> NoEntry]
    /\ UNCHANGED now
    /\ UNCHANGED instVars
    /\ UNCHANGED raceVars

\* Cache.ClearRef(ref): os.Remove of the ref's file
ClearRef(ref) ==
    LET path == getCachePath(ref)
        err  == RemoveErr(ref)
    IN  /\ cacheFiles' = IF err = "nil" THEN WithoutFile(cacheFiles, path) ELSE cacheFiles
        /\ clast' = CacheCall("ClearRef", ref, NilIndex, err, FALSE)
        /\ cprev' = Before(clast)
        /\ liveFile' = IF err = "nil" THEN [liveFile EXCEPT ![path] = NoEntry] ELSE liveFile
        /\ liveRef' = IF err = "nil" THEN [liveRef EXCEPT ![ref] = NoEntry] ELSE liveRef
        /\ UNCHANGED <<now, cacheDirExists>>
        /\ UNCHANGED instVars
        /\ UNCHANGED raceVars

\* Time passes between two calls.
Tick ==
    /\ now < MaxTime
    /\ now' = now + 1
    /\ UNCHANGED <<cacheDirExists, cacheFiles, clast, cprev, liveFile, liveRef>>
    /\ UNCHANGED instVars
    /\ UNCHANGED raceVars

\* Something else than the cache writes a file of the cache directory.
EnvWrite(path, doc) ==
    /\ cacheDirExists
    /\ cacheFiles' = WithFile(cacheFiles, path, File(doc))
    /\ clast' = CacheCall("env", <<>>, NilIndex, "nil", FALSE)
    /\ cprev' = Before(clast)
    /\ UNCHANGED <<now, cacheDirExists, liveFile, liveRef>>
    /\ UNCHANGED instVars
    /\ UNCHANGED raceVars

\* The permissions of a cache file are taken away.
EnvChmod(path) ==
    /\ path \in DOMAIN cacheFiles
    /\ cacheFiles[path].perm
    /\ cacheFiles' = [cacheFiles EXCEPT ![path].perm = FALSE]
    /\ clast' = CacheCall("env", <<>>, NilIndex, "nil", FALSE)
    /\ cprev' = Before(clast)
    /\ UNCHANGED <<now, cacheDirExists, liveFile, liveRef>>
    /\ UNCHANGED instVars
    /\ UNCHANGED raceVars

-----------------------------------------------------------------------------
(* Cache: Get and Set of one ref by several processes at a time *)

\* The ref the concurrent calls are about: "m"
SharedRef == <<109>>

\* The processes that call Set
Setters == {1, 2}

\* Indexes whose skill records take the same number of bytes
SharedIndexes ==
    { [version |-> "1.0", skills |-> s] : s \in { <<"a">>, <<"a", "b">>, <<"b", "a">> } }

\* The file is written and read in blocks; a block that was never written
\* reads as zeros
Block(kind, text, comma, ref, at) ==
    [kind |-> kind, text |-> text, comma |-> comma, ref |-> ref, at |-> at]
ZeroBlock == Block("zero", "", FALSE, <<>>, 0)

\* json.MarshalIndent(entry) cut into blocks: the opening of the object and of
\* "data", one block per skill record with the comma that follows every record
\* but the last, and the closing with "ref" and "fetched_at"
MarshalBlocks(entry) ==
    LET skills == entry.Data.skills IN
    <<Block("head", entry.Data.version, FALSE, <<>>, 0)>>
    \o [k \in 1..Len(skills) |-> Block("skill", skills[k], k < Len(skills), <<>>, 0)]
    \o <<Block("tail", "", FALSE, entry.Ref, entry.FetchedAt.wall)>>

\* json.Unmarshal of the bytes read: they parse when they are one object
UnmarshalBlocksOk(blocks) ==
    /\ Len(blocks) >= 2
    /\ blocks[1].kind = "head"
    /\ blocks[Len(blocks)].kind = "tail"
    /\ \A k \in 2..(Len(blocks) - 1) :
           blocks[k].kind = "skill" /\ blocks[k].comma = (k < Len(blocks) - 1)

UnmarshalBlocks(blocks) ==
    [Data |-> [version |-> blocks[1].text,
               skills |-> [k \in 1..(Len(blocks) - 2) |-> blocks[k + 1].text]],
     Ref |-> blocks[Len(blocks)].ref,
     FetchedAt |-> [wall |-> blocks[Len(blocks)].at, mono |-> NoMono]]

\* Cache.Get's return values once loadEntry has read these bytes
GetResultOf(blocks) ==
    IF ~UnmarshalBlocksOk(blocks) THEN Miss
    ELSE IF Since(UnmarshalBlocks(blocks).FetchedAt) > DefaultCacheTTL THEN Miss
    ELSE [data |-> UnmarshalBlocks(blocks).Data, found |-> TRUE]

\* write at the offset of the file descriptor: past the end of the file the
\* gap reads as zeros
WriteAt(blocks, pos, block) ==
    [k \in 1..(IF pos > Len(blocks) THEN pos ELSE Len(blocks)) |->
        IF k = pos THEN block ELSE IF k <= Len(blocks) THEN blocks[k] ELSE ZeroBlock]

NoFile == [exists |-> FALSE, blocks |-> <<>>, stored |-> {}]

\* A process that is not in Set; `index` is what its last Set stored
SetterIdle == [pc |-> "idle", index |-> NilIndex, blocks |-> <<>>, off |-> 0]

\* No Get in progress and none returned
GetterIdle == [pc |-> "idle", buf |-> <<>>, allowed |-> {}, quiet |-> FALSE,
               result |-> Miss]

InitCacheFile ==
    /\ cacheFile = NoFile
    /\ setters = [p \in Setters |-> SetterIdle]
    /\ getter = GetterIdle

\* The indexes of the Sets in progress
InProgress == { setters[p].index : p \in { q \in Setters : setters[q].pc = "write" } }

\* Whether the Sets that wrote the file last ran at the same time
Overlapped == cacheFile.exists /\ Cardinality(cacheFile.stored) = 2

\* Cache.Set(SharedRef, data) in process p up to os.WriteFile's open: the entry
\* is marshalled, the file is created or truncated
SetOpen(p, data) ==
    LET entry == [Data |-> data, Ref |-> SharedRef, FetchedAt |-> TimeNow] IN
    /\ setters[p].pc = "idle"
    /\ setters' = [setters EXCEPT ![p] = [pc |-> "write", index |-> data,
                                          blocks |-> MarshalBlocks(entry), off |-> 0]]
    /\ cacheFile' = [exists |-> TRUE, blocks |-> <<>>,
                stored |-> IF InProgress = {} THEN {} ELSE cacheFile.stored]
    /\ getter' = IF getter.pc = "read"
                 THEN [getter EXCEPT !.allowed = @ \cup {data}, !.quiet = FALSE]
                 ELSE getter
    /\ UNCHANGED <<now, cacheDirExists, cacheFiles, clast, cprev, liveFile, liveRef>>
    /\ UNCHANGED instVars

\* os.WriteFile's write in process p, one block of it; after the last block
\* the file is closed and Set returns nil
SetWrite(p) ==
    LET s == setters[p] IN
    /\ s.pc = "write"
    /\ cacheFile' = [cacheFile EXCEPT
                  !.blocks = WriteAt(@, s.off + 1, s.blocks[s.off + 1]),
                  !.stored = IF s.off + 1 = Len(s.blocks) THEN @ \cup {p} ELSE @]
    /\ setters' = [setters EXCEPT
                     ![p].off = @ + 1,
                     ![p].pc = IF s.off + 1 = Len(s.blocks) THEN "idle" ELSE "write"]
    /\ UNCHANGED getter
    /\ UNCHANGED <<now, cacheDirExists, cacheFiles, clast, cprev, liveFile, liveRef>>
    /\ UNCHANGED instVars

\* Cache.Get(SharedRef) up to os.ReadFile's open; without a file loadEntry
\* fails and Get returns a miss. `allowed` remembers the indexes that the file
\* holds or is being given, `quiet` whether the Get follows two Sets that ran
\* at the same time
GetOpen ==
    /\ getter.pc # "read"
    /\ getter' = [pc |-> IF cacheFile.exists THEN "read" ELSE "done",
                  buf |-> <<>>,
                  allowed |-> InProgress \cup
                              { setters[p].index : p \in
                                  { q \in cacheFile.stored : setters[q].pc = "idle" } },
                  quiet |-> InProgress = {} /\ Overlapped,
                  result |-> Miss]
    /\ UNCHANGED <<cacheFile, setters>>
    /\ UNCHANGED <<now, cacheDirExists, cacheFiles, clast, cprev, liveFile, liveRef>>
    /\ UNCHANGED instVars

\* os.ReadFile's read, one block of it; at the end of the file the bytes are
\* unmarshalled, the age is looked at and Get returns
GetRead ==
    /\ getter.pc = "read"
    /\ getter' = IF Len(getter.buf) < Len(cacheFile.blocks)
                 THEN [getter EXCEPT !.buf = Append(@, cacheFile.blocks[Len(getter.buf) + 1])]
                 ELSE [getter EXCEPT !.pc = "done", !.buf = <<>>,
                                     !.result = GetResultOf(getter.buf)]
    /\ UNCHANGED <<cacheFile, setters>>
    /\ UNCHANGED <<now, cacheDirExists, cacheFiles, clast, cprev, liveFile, liveRef>>
    /\ UNCHANGED instVars

-----------------------------------------------------------------------------
(* The registry behind the SkillProvider *)

Names == {"a", "b", "c"}

\* os.ReadDir returns the entries sorted by file name
NameOrder == <<"a", "b", "c">>

RelPaths == {"SKILL.md", "references/guide.md"}

Range(seq) == { seq[k] : k \in 1..Len(seq) }

\* The index of each snapshot, in index order
IndexAt(v) ==
    IF v = 1 THEN <<"c", "a", "b">>
    ELSE IF v = 2 THEN <<"a", "c">>
    ELSE <<"b">>

StackOf(name) == IF name = "b" THEN "database" ELSE "common"

Stacks == {"common", "database", "testing"}

\* GetFiles: relative path -> content, 0 where the skill has no such file.
\* The primary document is always there; its content differs per snapshot.
FilesAt(v) ==
    [p \in RelPaths |-> IF p = "SKILL.md" THEN v ELSE IF v = 1 THEN 1 ELSE 0]

\* Provider.Find: exact-name lookup
Finds(v, name) == name \in Range(IndexAt(v))

\* Provider.List
List(v) == IndexAt(v)

\* Provider.ListByStack
ListByStack(v, stack) == SelectSeq(IndexAt(v), LAMBDA n : StackOf(n) = stack)

-----------------------------------------------------------------------------
(* The target directory *)

NoFilesIn == [p \in RelPaths |-> 0]

Absent == [kind |-> "absent", files |-> NoFilesIn]
PlainFile == [kind |-> "file", files |-> NoFilesIn]
Dir(files) == [kind |-> "dir", files |-> files]

\* The part of the disk the installer works on
Disk(target, tree) == [target |-> target, fs |-> tree]

Err(kind, subject) == [kind |-> kind, subject |-> subject]
Nil == Err("nil", "")

\* fmt.Errorf("%s: %w", name, err): the message now starts with the name
Wrap(name, err) == Err(err.kind, name)

\* How a call ends: its error, the disk it leaves, and whether the provider or
\* the disk failed under it
Outcome(err, disk) == [err |-> err, disk |-> disk, fault |-> FALSE]
Faulty(err, disk) == [err |-> err, disk |-> disk, fault |-> TRUE]

\* Names that are not those of skills but that a caller can pass just the same:
\* the empty string, and a path that climbs out of one skill into another
OddNames == {"", "c/../a"}

\* The name split at its separators
Segments(name) ==
    IF name = "" THEN <<>>
    ELSE IF name = "c/../a" THEN <<"c", "..", "a">>
    ELSE <<name>>

\* filepath.Clean, segment by segment: "." is dropped and ".." takes back the
\* segment before it (no name here climbs above the target directory)
RECURSIVE CleanInto(_, _)
CleanInto(done, segs) ==
    IF segs = <<>> THEN done
    ELSE IF Head(segs) = "." THEN CleanInto(done, Tail(segs))
    ELSE IF Head(segs) = ".."
         THEN CleanInto(IF done = <<>> THEN <<>> ELSE SubSeq(done, 1, Len(done) - 1),
                        Tail(segs))
    ELSE CleanInto(Append(done, Head(segs)), Tail(segs))

\* filepath.Join(baseDir, TargetDir, name), relative to the target directory:
\* <<>> is the target directory itself, <<n>> the directory of skill n.
\* Computed once for the names of the model.
JoinTargets == [name \in Names \cup OddNames |-> CleanInto(<<>>, Segments(name))]

JoinTarget(name) == JoinTargets[name]

\* What os.Stat finds at filepath.Join(baseDir, TargetDir, name)
EntryAt(disk, name) ==
    LET at == JoinTarget(name) IN
    IF at = <<>> THEN (IF disk.target THEN Dir(NoFilesIn) ELSE Absent)
    ELSE IF Len(at) = 1 /\ at[1] \in Names THEN disk.fs[at[1]]
    ELSE Absent

\* os.RemoveAll(filepath.Join(baseDir, TargetDir, name))
RemovedAt(disk, name) ==
    LET at == JoinTarget(name) IN
    IF at = <<>> THEN Disk(FALSE, [n \in Names |-> Absent])
    ELSE Disk(disk.target, [disk.fs EXCEPT ![at[1]] = Absent])

\* An IsInstalled that is content with the directory
IsInstalledDirOnly(disk, name) == EntryAt(disk, name).kind = "dir"

\* IsInstalled: the path is a directory and SKILL.md is in it
IsInstalledOn(disk, name) ==
    /\ EntryAt(disk, name).kind = "dir"
    /\ EntryAt(disk, name).files["SKILL.md"] # 0

\* ListInstalled: the subdirectories that hold SKILL.md, in ReadDir's order
ListInstalledOn(disk) ==
    SelectSeq(NameOrder, LAMBDA n : /\ disk.fs[n].kind = "dir"
                                    /\ disk.fs[n].files["SKILL.md"] # 0)

\* A ListInstalled that returns the error of os.ReadDir whatever it is
ListInstalledStrict(disk) ==
    IF ~disk.target THEN [list |-> <<>>, err |-> Err("ReadDir", "")]
    ELSE [list |-> ListInstalledOn(disk), err |-> Nil]

\* ListInstalled(): the list and the error it returns when the disk answers; a
\* target directory that does not exist is an empty list, not an error
ListInstalledResult(disk) ==
    IF ~disk.target THEN [list |-> <<>>, err |-> Nil]
    ELSE [list |-> ListInstalledOn(disk), err |-> Nil]

\* The loop of Install after the files in `written` have been written
WriteFiles(disk, name, files, written) ==
    Disk(TRUE,
         [disk.fs EXCEPT ![name] =
            Dir([p \in RelPaths |-> IF p \in written THEN files[p] ELSE @.files[p]])])

\* An Install that writes nothing and reports success
InstallOutcomesNoWrite(disk, v, name, faults) ==
    IF ~Finds(v, name) THEN { Outcome(Err("NotFound", name), disk) }
    ELSE { Outcome(Nil, disk) }

\* An Install that writes the primary document only
InstallOutcomesDocOnly(disk, v, name, faults) ==
    IF ~Finds(v, name) THEN { Outcome(Err("NotFound", name), disk) }
    ELSE IF disk.fs[name].kind = "file" THEN { Outcome(Err("Mkdir", ""), disk) }
    ELSE { Outcome(Nil, WriteFiles(disk, name, FilesAt(v), {"SKILL.md"})) }

\* An Install that refuses a skill whose directory is there already
InstallOutcomesNoOverwrite(disk, v, name, faults) ==
    IF ~Finds(v, name) THEN { Outcome(Err("NotFound", name), disk) }
    ELSE IF disk.fs[name].kind # "absent" THEN { Outcome(Err("Mkdir", ""), disk) }
    ELSE { Outcome(Nil, WriteFiles(disk, name, FilesAt(v), RelPaths)) }

\* An Install that makes the skill's directory before it fetches the files
InstallOutcomesMkdirFirst(disk, v, name, faults) ==
    IF ~Finds(v, name) THEN { Outcome(Err("NotFound", name), disk) }
    ELSE IF disk.fs[name].kind = "file" THEN { Outcome(Err("Mkdir", ""), disk) }
    ELSE { Outcome(Nil, WriteFiles(disk, name, FilesAt(v), RelPaths)) }
         \cup (IF faults
               THEN { Faulty(Err("Fetch", ""), WriteFiles(disk, name, FilesAt(v), {})) }
               ELSE {})

\* Install(skillName): every way it can end, with the error and the disk left.
\* With `faults` the provider and the disk may fail at any point.
\* An Install that empties the skill's directory before it writes
InstallOutcomesClean(disk, v, name, faults) ==
    IF ~Finds(v, name) THEN { Outcome(Err("NotFound", name), disk) }
    ELSE IF disk.fs[name].kind = "file" THEN { Outcome(Err("Mkdir", ""), disk) }
    ELSE { Outcome(Nil, WriteFiles(Disk(disk.target, [disk.fs EXCEPT ![name] = Absent]),
                                   name, FilesAt(v),
                                   { p \in RelPaths : FilesAt(v)[p] # 0 })) }

InstallOutcomes(disk, v, name, faults) ==
    LET files == FilesAt(v)
        keys  == { p \in RelPaths : files[p] # 0 }
    IN  IF ~Finds(v, name) THEN { Outcome(Err("NotFound", name), disk) }
        ELSE
           (IF disk.fs[name].kind = "file"
            THEN { Outcome(Err("Mkdir", ""), disk) }
            ELSE { Outcome(Nil, WriteFiles(disk, name, files, keys)) })
           \cup
           (IF faults
            THEN {Faulty(Err("NotFound", name), disk), Faulty(Err("Fetch", ""), disk)}
            ELSE {})
           \cup
           (IF faults /\ disk.fs[name].kind # "file"
            THEN { Faulty(Err("Mkdir", ""),
                           IF written = {} THEN disk
                           ELSE WriteFiles(disk, name, files, written)) :
                   written \in (SUBSET keys) \ {keys} }
                 \cup { Faulty(Err("Write", ""), WriteFiles(disk, name, files, written)) :
                        written \in (SUBSET keys) \ {keys} }
            ELSE {})

\* A Remove that deletes SKILL.md and leaves the directory
RemoveOutcomesDocOnly(disk, name, faults) ==
    IF EntryAt(disk, name).kind # "dir" THEN { Outcome(Err("NotInstalled", name), disk) }
    ELSE IF JoinTarget(name) = <<>> THEN { Outcome(Nil, disk) }
    ELSE { Outcome(Nil, Disk(disk.target,
                [disk.fs EXCEPT ![JoinTarget(name)[1]].files["SKILL.md"] = 0])) }

\* Remove(skillName): os.Stat, then os.RemoveAll
RemoveOutcomes(disk, name, faults) ==
    IF EntryAt(disk, name).kind # "dir" THEN { Outcome(Err("NotInstalled", name), disk) }
    ELSE { Outcome(Nil, RemovedAt(disk, name)) }
         \cup (IF faults THEN { Faulty(Err("RemoveAll", ""), disk) } ELSE {})

\* An Update that installs what is not installed
UpdateOutcomesOrInstall(disk, v, name, faults) ==
    IF ~IsInstalledOn(disk, name) THEN InstallOutcomes(disk, v, name, faults)
    ELSE UNION { IF r.err # Nil
                 THEN { Faulty(Err("RemoveOld", ""), r.disk) }
                 ELSE InstallOutcomes(r.disk, v, name, faults) :
                 r \in RemoveOutcomes(disk, name, faults) }

\* An Update that installs over the old directory
UpdateOutcomesInPlace(disk, v, name, faults) ==
    IF ~IsInstalledOn(disk, name) THEN { Outcome(Err("NotInstalled", name), disk) }
    ELSE InstallOutcomes(disk, v, name, faults)

\* An Update that puts the old directory back when Install fails
UpdateOutcomesRestoring(disk, v, name, faults) ==
    IF ~IsInstalledOn(disk, name) THEN { Outcome(Err("NotInstalled", name), disk) }
    ELSE UNION { IF r.err # Nil
                 THEN { Faulty(Err("RemoveOld", ""), r.disk) }
                 ELSE { IF o.err # Nil THEN [o EXCEPT !.disk = disk] ELSE o :
                        o \in InstallOutcomes(r.disk, v, name, faults) } :
                 r \in RemoveOutcomes(disk, name, faults) }

\* Update(skillName): IsInstalled, Remove, Install
UpdateOutcomes(disk, v, name, faults) ==
    IF ~IsInstalledOn(disk, name) THEN { Outcome(Err("NotInstalled", name), disk) }
    ELSE UNION { IF r.err # Nil
                 THEN { Faulty(Err("RemoveOld", ""), r.disk) }
                 ELSE InstallOutcomes(r.disk, v, name, faults) :
                 r \in RemoveOutcomes(disk, name, faults) }

-----------------------------------------------------------------------------
(* Installer: the single calls *)

Here == Disk(targetExists, fs)

IsInstalled(name) == IsInstalledOn(Here, name)

ListInstalled == ListInstalledOn(Here)

NoResult == [op |-> "none", name |-> "", err |-> Nil]

Idle == [op |-> "none", pc |-> "idle", items |-> <<>>, i |-> 1,
         installed |-> <<>>, installedAt |-> <<>>, errors |-> <<>>, pre |-> {},
         nfaults |-> 0, asked |-> FALSE, setup |-> Nil, skill |-> ""]

\* A single call returns o
Returns(op, name, o) ==
    /\ batch.pc # "run"
    /\ ilast' = [op |-> op, name |-> name, err |-> o.err]
    /\ targetExists' = o.disk.target
    /\ fs' = o.disk.fs
    /\ batch' = Idle
    /\ UNCHANGED regVer
    /\ UNCHANGED cacheVars

Install(name, faults) ==
    \E o \in InstallOutcomes(Here, regVer, name, faults) : Returns("Install", name, o)

Remove(name, faults) ==
    \E o \in RemoveOutcomes(Here, name, faults) : Returns("Remove", name, o)

Update(name, faults) ==
    \E o \in UpdateOutcomes(Here, regVer, name, faults) : Returns("Update", name, o)

-----------------------------------------------------------------------------
(* Installer: the batch calls, one loop iteration per step *)

\* The argument lists of InstallMultiple
NameLists == { <<>>, <<"a", "b", "c">>, <<"c", "a">>, <<"b", "b">> }

\* A batch call has its work list and enters its loop (or returns at once).
\* `pre` remembers which skills were installed when the call began, `asked`
\* whether the call has made a call to the provider, `setup` the error that
\* ended a command before it had its work list, `skill` the skill whose files
\* are the work list.
Begin(op, items, errors) ==
    /\ batch.pc # "run"
    /\ batch' = [op |-> op,
                 pc |-> IF items = <<>> THEN "done" ELSE "run",
                 items |-> items, i |-> 1,
                 installed |-> <<>>, installedAt |-> <<>>, errors |-> errors,
                 pre |-> { n \in Names : IsInstalled(n) },
                 nfaults |-> 0,
                 asked |-> op \in {"InstallStack", "InstallAll"},
                 setup |-> Nil,
                 skill |-> ""]
    /\ ilast' = NoResult
    /\ UNCHANGED <<regVer, targetExists, fs>>
    /\ UNCHANGED cacheVars

\* An entry of the error list; `at` remembers the item it came from (0: none)
Failure(at, err) == [at |-> at, err |-> err]

InstallMultiple(names) == Begin("InstallMultiple", names, <<>>)

\* An InstallStack that does not look at the length of the list
InstallStackAnyList(stack) == Begin("InstallStack", ListByStack(regVer, stack), <<>>)

\* InstallStack(stack): a provider may report a stack without skills by an
\* error or by an empty list
InstallStack(stack) ==
    LET skills == ListByStack(regVer, stack) IN
    \/ /\ skills # <<>>
       /\ Begin("InstallStack", skills, <<>>)
    \/ /\ skills = <<>>
       /\ \E kind \in {"ListStack", "EmptyStack"} :
             Begin("InstallStack", <<>>, <<Failure(0, Err(kind, stack))>>)

InstallAll == Begin("InstallAll", List(regVer), <<>>)

\* An UpdateAll that takes its work list from the registry
UpdateAllFromRegistry == Begin("UpdateAll", List(regVer), <<>>)

UpdateAll ==
    LET r == ListInstalledResult(Here) IN
    Begin("UpdateAll", r.list, IF r.err = Nil THEN <<>> ELSE <<Failure(0, r.err)>>)

\* InstallStack, InstallAll or UpdateAll when listing fails
ListFails(op) ==
    Begin(op, <<>>,
          <<Failure(0, Err(IF op = "InstallStack" THEN "ListStack"
                           ELSE IF op = "InstallAll" THEN "List" ELSE "ReadDir", ""))>>)

\* The calls whose loop body is Update: UpdateAll, and the update command
Updating == {"UpdateAll", "runUpdate"}

\* What the loop body calls for the item
ItemOutcomes(name, faults) ==
    IF batch.op \in Updating THEN UpdateOutcomes(Here, regVer, name, faults)
    ELSE InstallOutcomes(Here, regVer, name, faults)

\* What the loop body appends to the error list
ItemError(name, err) ==
    IF batch.op \in {"InstallMultiple"} \cup Updating THEN Wrap(name, err) ELSE err

\* Whether the call for the item has reached the provider: Install begins with
\* Find; Update gets there once IsInstalled and Remove are behind it
ItemAsks(err) ==
    batch.op \in Updating => err.kind \notin {"NotInstalled", "RemoveOld"}

\* A slice that grows at the front
Prepended(list, x) == <<x>> \o list

\* append(list, x)
Appended(list, x) == Append(list, x)

\* A loop that returns at the first error
AfterItemBreaking(err) ==
    IF err # Nil \/ batch.i = Len(batch.items) THEN "done" ELSE "run"

\* `for ... range`: on to the next item whatever the error; return after the last
AfterItem(err) == IF batch.i = Len(batch.items) THEN "done" ELSE "run"

\* One iteration of the loop of InstallMultiple, InstallStack, InstallAll or
\* UpdateAll; after the last one the call returns
Loop(faults) ==
    /\ batch.pc = "run"
    /\ LET name == batch.items[batch.i] IN
       \E o \in ItemOutcomes(name, faults /\ batch.nfaults < MaxFaults) :
          /\ targetExists' = o.disk.target
          /\ fs' = o.disk.fs
          /\ batch' = IF o.err = Nil
                      THEN [batch EXCEPT
                              !.installed = Appended(@, name),
                              !.installedAt = Appended(@, batch.i),
                              !.i = @ + 1,
                              !.pc = AfterItem(o.err),
                              !.asked = TRUE]
                      ELSE [batch EXCEPT
                              !.errors = Appended(@, Failure(batch.i, ItemError(name, o.err))),
                              !.i = @ + 1,
                              !.pc = AfterItem(o.err),
                              !.nfaults = IF o.fault THEN @ + 1 ELSE @,
                              !.asked = @ \/ ItemAsks(o.err)]
    /\ UNCHANGED <<regVer, ilast>>
    /\ UNCHANGED cacheVars

-----------------------------------------------------------------------------
(* cli: the update command *)

\* The update command has its work list and enters a loop of Update calls (its
\* own over the arguments, or that of UpdateAll), or returns at once
Command(items, errors, setup) ==
    /\ batch.pc # "run"
    /\ batch' = [op |-> "runUpdate",
                 pc |-> IF items = <<>> THEN "done" ELSE "run",
                 items |-> items, i |-> 1,
                 installed |-> <<>>, installedAt |-> <<>>, errors |-> errors,
                 pre |-> { n \in Names : IsInstalled(n) },
                 nfaults |-> 0,
                 asked |-> FALSE,
                 setup |-> setup,
                 skill |-> ""]
    /\ ilast' = NoResult
    /\ UNCHANGED <<regVer, targetExists, fs>>
    /\ UNCHANGED cacheVars

\* runUpdate(cmd, args): without arguments the work list is what ListInstalled
\* returns, and the command returns at once when that is an error or empty
runUpdate(args) ==
    IF args = <<>>
    THEN LET r == ListInstalledResult(Here) IN
         IF r.err # Nil THEN Command(<<>>, <<>>, Err("ListInstalled", ""))
         ELSE Command(r.list, <<>>, Nil)
    ELSE Command(args, <<>>, Nil)

\* runUpdate when getRegistry, os.Getwd or ListInstalled fails: it returns the
\* error before it has processed a skill
runUpdateFails(kind) == Command(<<>>, <<>>, Err(kind, ""))

\* runUpdate without arguments when the ListInstalled of UpdateAll fails after
\* that of the command has not: one aggregate error, no work list
runUpdateAllFails ==
    /\ ListInstalledResult(Here).list # <<>>
    /\ Command(<<>>, <<Failure(0, Err("ReadDir", ""))>>, Nil)

\* A line of the command's output: a mark and a name or an error
Line(mark, what) == [mark |-> mark, what |-> what]

\* The lines printed for the results: one per updated name, then one per error
PrintResults(updated, errors) ==
    [k \in 1..Len(updated) |-> Line("ok", Err("nil", updated[k]))]
    \o [k \in 1..Len(errors) |-> Line("failed", errors[k].err)]

\* A command that fails only when it has updated nothing
RunUpdateErrLenient(setup, updated, errors) ==
    IF setup # Nil THEN setup
    ELSE IF Len(errors) > 0 /\ Len(updated) = 0 THEN Err("UpdateFailed", "")
    ELSE Nil

\* What runUpdate returns, which decides the exit code: the setup error, or an
\* error that counts the failures, or nil
RunUpdateErr(setup, updated, errors) ==
    IF setup # Nil THEN setup
    ELSE IF Len(errors) > 0 THEN Err("UpdateFailed", "")
    ELSE Nil

\* What the command that has returned has printed and returned
RunUpdateOutput ==
    IF batch.setup # Nil THEN <<>> ELSE PrintResults(batch.installed, batch.errors)

RunUpdateReturn == RunUpdateErr(batch.setup, batch.installed, batch.errors)

-----------------------------------------------------------------------------
(* Install, one file per step *)

\* What is in a file that os.WriteFile created and then failed to fill
Truncated == 0 - 1

\* Keys that are not paths inside the skill but that a GetFiles can return just
\* the same: a path that climbs out of the skill's directory into a sibling's
OddKeys == {"../b/SKILL.md"}

\* The key split at its separators
KeySegments(key) ==
    IF key = "SKILL.md" THEN <<"SKILL.md">>
    ELSE IF key = "references/guide.md" THEN <<"references", "guide.md">>
    ELSE <<"..", "b", "SKILL.md">>

\* filepath.Join(skillDir, relPath), relative to the target directory: the
\* skill directory the path is in, and the path inside it. Computed once for
\* the names and keys of the model.
JoinFiles ==
    [name \in Names, key \in RelPaths \cup OddKeys |->
        LET segs == CleanInto(<<>>, <<name>> \o KeySegments(key)) IN
        [skill |-> Head(segs),
         path |-> CHOOSE p \in RelPaths : KeySegments(p) = Tail(segs)]]

JoinFile(name, key) == JoinFiles[name, key]

\* The content GetFiles returns under the key
ContentAt(v, key) == IF key \in RelPaths THEN FilesAt(v)[key] ELSE v

\* The orders in which `for relPath, content := range files` can go through the
\* keys of the map
FileOrders(keys) ==
    { order \in [1..Cardinality(keys) -> keys] :
        \A j, k \in 1..Cardinality(keys) : j # k => order[j] # order[k] }

\* Install has its list of files and enters its loop, or has returned `errors`
Fetched(name, order, errors) ==
    [op |-> "Install",
     pc |-> IF order = <<>> THEN "done" ELSE "run",
     items |-> order, i |-> 1,
     installed |-> <<>>, installedAt |-> <<>>, errors |-> errors,
     pre |-> { n \in Names : IsInstalled(n) },
     nfaults |-> 0,
     asked |-> TRUE,
     setup |-> Nil,
     skill |-> name]

\* Install(skillName) up to its loop: Find, then GetFiles, which returns the
\* files of the skill and the keys of `odd`
InstallBegin(name, odd) ==
    /\ batch.pc # "run"
    /\ \/ /\ ~Finds(regVer, name)
          /\ batch' = Fetched(name, <<>>, <<Failure(0, Err("NotFound", name))>>)
       \/ /\ Finds(regVer, name)
          /\ \E kind \in {"NotFound", "Fetch"} :
                batch' = Fetched(name, <<>>, <<Failure(0, Err(kind, name))>>)
       \/ /\ Finds(regVer, name)
          /\ \E order \in FileOrders({ p \in RelPaths : FilesAt(regVer)[p] # 0 } \cup odd) :
                batch' = Fetched(name, order, <<>>)
    /\ ilast' = NoResult
    /\ UNCHANGED <<regVer, targetExists, fs>>
    /\ UNCHANGED cacheVars

\* A loop that goes on to the next file after a failure
Skipped(err) ==
    [batch EXCEPT !.errors = Append(@, Failure(batch.i, err)),
                  !.i = @ + 1,
                  !.pc = IF batch.i = Len(batch.items) THEN "done" ELSE "run"]

\* Install returns the error of the file it is at
Stopped(err) ==
    [batch EXCEPT !.errors = Append(@, Failure(batch.i, err)), !.pc = "done"]

\* One iteration of the loop of Install: os.MkdirAll, then os.WriteFile. Either
\* can fail; a WriteFile that fails leaves the file as it was or, when it had
\* opened the file, truncated.
InstallWrite ==
    /\ batch.op = "Install"
    /\ batch.pc = "run"
    /\ LET key  == batch.items[batch.i]
           name == JoinFile(batch.skill, key).skill
           p    == JoinFile(batch.skill, key).path
           here == fs[name]
       IN  \/ /\ here.kind # "file"
              /\ fs' = [fs EXCEPT ![name] =
                          Dir([here.files EXCEPT ![p] = ContentAt(regVer, key)])]
              /\ targetExists' = TRUE
              /\ batch' = [batch EXCEPT
                             !.installed = Append(@, key),
                             !.installedAt = Append(@, batch.i),
                             !.i = @ + 1,
                             !.pc = IF batch.i = Len(batch.items) THEN "done" ELSE "run"]
           \/ /\ UNCHANGED <<fs, targetExists>>
              /\ batch' = Stopped(Err("Mkdir", key))
           \/ /\ here.kind # "file"
              /\ \E left \in {here.files[p], Truncated} :
                    fs' = [fs EXCEPT ![name] = Dir([here.files EXCEPT ![p] = left])]
              /\ targetExists' = TRUE
              /\ batch' = Stopped(Err("Write", key))
    /\ UNCHANGED <<regVer, ilast>>
    /\ UNCHANGED cacheVars

-----------------------------------------------------------------------------
(* What happens around the installer, between two calls *)

Forget == ilast' = NoResult /\ batch' = Idle

\* The provider's ref resolves to another snapshot of the registry.
RegistryChange(v) ==
    /\ batch.pc # "run"
    /\ v # regVer
    /\ regVer' = v
    /\ Forget
    /\ UNCHANGED <<targetExists, fs>>
    /\ UNCHANGED cacheVars

\* Someone makes an empty directory in the target directory.
EnvMkdir(name) ==
    /\ batch.pc # "run"
    /\ fs[name].kind = "absent"
    /\ fs' = [fs EXCEPT ![name] = Dir(NoFilesIn)]
    /\ targetExists' = TRUE
    /\ Forget
    /\ UNCHANGED regVer
    /\ UNCHANGED cacheVars

\* Someone puts a plain file in the target directory.
EnvTouch(name) ==
    /\ batch.pc # "run"
    /\ fs[name].kind = "absent"
    /\ fs' = [fs EXCEPT ![name] = PlainFile]
    /\ targetExists' = TRUE
    /\ Forget
    /\ UNCHANGED regVer
    /\ UNCHANGED cacheVars

-----------------------------------------------------------------------------
(* Specifications *)

InitCache ==
    /\ now = 0
    /\ cacheDirExists = FALSE
    /\ cacheFiles = NoFiles
    /\ clast = NoCall
    /\ cprev = NoCall
    /\ liveFile = [p \in FileNames |-> NoEntry]
    /\ liveRef = [r \in Refs |-> NoEntry]

\* installer.New on a project without a target directory
InitInstaller ==
    /\ regVer = 1
    /\ targetExists = FALSE
    /\ fs = [n \in Names |-> Absent]
    /\ ilast = NoResult
    /\ batch = Idle

Init == InitCache /\ InitCacheFile /\ InitInstaller

\* The calls of the cache, on the refs of R
CacheCalls(R) ==
    \/ \E ref \in R : Get(ref)
    \/ \E ref \in R, data \in Indexes : Set(ref, data)
    \/ Clear
    \/ \E ref \in R : ClearRef(ref)

NextCache ==
    \/ CacheCalls(Refs)
    \/ Tick

\* "m" and "é"
RefsEnv == { <<109>>, <<233>> }

NextCacheEnv ==
    \/ CacheCalls(RefsEnv)
    \/ Tick
    \/ \E ref \in { r \in RefsEnv : PathOk(getCachePath(r)) },
          doc \in {Garbage, EmptyObject} : EnvWrite(getCachePath(ref), doc)
    \/ \E ref \in RefsEnv : EnvChmod(getCachePath(ref))

\* The calls of the installer
InstallerCalls(faults) ==
    \/ \E name \in Names : Install(name, faults)
    \/ \E name \in Names \cup OddNames : Remove(name, faults)
    \/ \E name \in Names : Update(name, faults)
    \/ \E names \in NameLists : InstallMultiple(names)
    \/ \E stack \in Stacks : InstallStack(stack)
    \/ InstallAll
    \/ UpdateAll
    \/ Loop(faults)

\* What happens between two calls
Around ==
    \/ \E v \in 1..MaxVer : RegistryChange(v)
    \/ \E name \in Names : EnvMkdir(name)

NextInstaller ==
    \/ InstallerCalls(FALSE)
    \/ Around

NextInstallerFaults ==
    \/ InstallerCalls(TRUE)
    \/ \E op \in {"InstallStack", "InstallAll", "UpdateAll"} : ListFails(op)
    \/ Around
    \/ \E name \in Names : EnvTouch(name)

\* The update command, run again and again on what Install has put there
NextUpdateCmd ==
    \/ \E name \in Names : Install(name, FALSE)
    \/ \E args \in NameLists : runUpdate(args)
    \/ \E kind \in {"Registry", "Getwd", "ListInstalled"} : runUpdateFails(kind)
    \/ runUpdateAllFails
    \/ Loop(TRUE)
    \/ Around

\* Install file by file, on a disk that may fail at any file, and Remove
NextInstallLoop ==
    \/ \E name \in Names : InstallBegin(name, {})
    \/ InstallWrite
    \/ \E name \in Names : Remove(name, FALSE)
    \/ Around
    \/ \E name \in Names : EnvTouch(name)

\* Install file by file with a provider whose GetFiles may return any key, for
\* the skill that the odd key names and for another
NextInstallAnyKeys ==
    \/ \E name \in {"a", "b"}, odd \in SUBSET OddKeys : InstallBegin(name, odd)
    \/ InstallWrite
    \/ \E name \in {"a", "b"} : Remove(name, FALSE)

\* A Get that begins when no Set is in progress
GetAfterSets ==
    /\ InProgress = {}
    /\ GetOpen

\* One process calls Set, one after the other, while another calls Get
NextCacheReadWrite ==
    \/ \E data \in SharedIndexes : SetOpen(1, data)
    \/ SetWrite(1)
    \/ GetOpen
    \/ GetRead

\* Two processes call Set, and a third calls Get once they have returned
NextCacheWriters ==
    \/ \E p \in Setters, data \in SharedIndexes : SetOpen(p, data)
    \/ \E p \in Setters : SetWrite(p)
    \/ GetAfterSets
    \/ GetRead

\* The cache used by one process on a disk nothing else writes
SpecCache == Init /\ [][NextCache]_vars

\* The cache on a disk that other programs write too
SpecCacheEnv == Init /\ [][NextCacheEnv]_vars

\* The installer with a provider and a disk that do not fail
SpecInstaller == Init /\ [][NextInstaller]_vars

\* The installer with a provider and a disk that may fail at any point
SpecInstallerFaults == Init /\ [][NextInstallerFaults]_vars

\* The update command with a provider and a disk that may fail at any point
SpecUpdateCmd == Init /\ [][NextUpdateCmd]_vars

\* Install seen file by file, with a provider and a disk that may fail
SpecInstallLoop == Init /\ [][NextInstallLoop]_vars

\* The same, with a provider that is free in the keys of the files it returns
SpecInstallAnyKeys == Init /\ [][NextInstallAnyKeys]_vars

SpecCacheReadWrite == Init /\ [][NextCacheReadWrite]_vars

SpecCacheWriters == Init /\ [][NextCacheWriters]_vars

-----------------------------------------------------------------------------
(* The cache's claims *)

\* The entry that loadEntry reads for the ref of the last call
LastEntry == loadEntry(clast.ref)

\* C1: Set(ref, X) immediately followed by Get(ref), with at most ttl between
\* the two, returns (X, found = true), for every ref and every index X.
C1_SetThenGet ==
    (/\ clast.op = "Get"
     /\ cprev.op = "Set"
     /\ cprev.ref = clast.ref
     /\ clast.at - cprev.at <= DefaultCacheTTL)
    => (clast.found /\ clast.data = cprev.data)

\* C2, in every state: a Get of a ref whose entry is on disk finds it exactly
\* when, at the time of the Get, now - fetchedAt <= ttl; and once more than ttl
\* has passed since the latest Set of the entry, Get returns found = false.
C2_ValidWhileFresh ==
    clast.op = "Get" =>
        /\ LoadErr(clast.ref) = "nil" =>
              (clast.found <=> clast.at - LastEntry.FetchedAt.wall <= DefaultCacheTTL)
        /\ LET e == liveFile[getCachePath(clast.ref)] IN
           (e.set /\ clast.at - e.at > DefaultCacheTTL) => ~clast.found

\* C2, in every step: Get leaves the cache directory and its files as they are.
C2_GetKeepsDisk ==
    (clast'.op = "Get" /\ now' = now) =>
        (cacheFiles' = cacheFiles /\ cacheDirExists' = cacheDirExists)

\* C2: an entry is valid exactly while now - fetchedAt <= ttl (the boundary
\* included), Get misses once more than ttl has passed since the Set, and Get
\* neither deletes nor modifies the expired entry on disk.
C2_ExpiresAfterTTL == []C2_ValidWhileFresh /\ [][C2_GetKeepsDisk]_vars

\* C2's case: a Get missed an entry that is older than ttl and still on disk.
C2_Witness ==
    /\ clast.op = "Get"
    /\ ~clast.found
    /\ LoadErr(clast.ref) = "nil"
    /\ clast.at - LastEntry.FetchedAt.wall = DefaultCacheTTL + 1

\* C3 as first stated, in every state: Get(ref) finds an index only if a Set of
\* that same ref has not been cleared since and the entry on disk is at most
\* ttl old, and the index is the one of the latest Set of that same ref.
C3_SameRefState ==
    (clast.op = "Get" /\ clast.found) =>
        /\ liveRef[clast.ref].set
        /\ clast.at - LastEntry.FetchedAt.wall <= DefaultCacheTTL
        /\ clast.data = liveRef[clast.ref].data

\* C3 as first stated, in every step: a Set of another ref changes no Get(ref).
C3_SameRefStep ==
    (clast'.op = "Set" /\ now' = now) =>
        \A r \in Refs : r # clast'.ref => GetResult(r)' = GetResult(r)

\* C3 as first stated: entries are kept per ref.
C3_EntryPerRef == []C3_SameRefState /\ [][C3_SameRefStep]_vars

\* C3 amended, in every state: Get(ref) finds an index only if a Set of a ref
\* with the same sanitized file name has not been cleared since and is at most
\* ttl old, and the index is the one of the latest such Set.
C3_SameFileState ==
    (clast.op = "Get" /\ clast.found) =>
        LET e == liveFile[getCachePath(clast.ref)] IN
        /\ e.set
        /\ clast.at - e.at <= DefaultCacheTTL
        /\ clast.data = e.data

\* C3 amended, in every step: a Set of a ref with another sanitized file name
\* changes no Get(ref).
C3_SameFileStep ==
    (clast'.op = "Set" /\ now' = now) =>
        \A r \in Refs : getCachePath(r) # getCachePath(clast'.ref)
                            => GetResult(r)' = GetResult(r)

\* C3 amended: entries are kept per sanitized file name.
C3_EntryPerFile == []C3_SameFileState /\ [][C3_SameFileStep]_vars

\* C3's case: a Get found the index that a Set of another ref stored.
C3_Witness ==
    /\ clast.op = "Get"
    /\ clast.found
    /\ liveFile[getCachePath(clast.ref)].ref # clast.ref
    /\ ~liveRef[clast.ref].set

\* C4: Get has no error to report, and whenever the entry's file is missing,
\* cannot be read, does not parse or holds a stale entry, Get returns no index
\* and found = false.
C4_FailuresAreMisses ==
    clast.op = "Get" =>
        /\ clast.err = "nil"
        /\ (\/ LoadErr(clast.ref) # "nil"
            \/ clast.at - LastEntry.FetchedAt.wall > DefaultCacheTTL)
           => (clast.data = NilIndex /\ ~clast.found)

\* C4's case: a Get of a file that does not parse as a cache entry.
C4_Witness ==
    /\ clast.op = "Get"
    /\ LoadErr(clast.ref) = "EJSON"
    /\ clast.data = NilIndex
    /\ ~clast.found

-----------------------------------------------------------------------------
(* The installer's claims *)

\* C5: whenever Install(name) returns without error, IsInstalled(name) holds
\* right after it.
C5_InstalledAfterInstall ==
    (ilast.op = "Install" /\ ilast.err = Nil) => IsInstalled(ilast.name)

\* C5's case: an Install has just returned without error.
C5_Witness ==
    /\ ilast.op = "Install"
    /\ ilast.err = Nil
    /\ IsInstalled(ilast.name)
    /\ fs[ilast.name].files = FilesAt(regVer)

\* C6: whenever Remove(name) returns without error, IsInstalled(name) is false
\* right after it and nothing is left of the skill's directory.
C6_GoneAfterRemove ==
    (ilast.op = "Remove" /\ ilast.err = Nil) =>
        (~IsInstalled(ilast.name) /\ EntryAt(Here, ilast.name) = Absent)

\* C6's case: a Remove has just returned without error, next to an installed skill.
C6_Witness ==
    /\ ilast.op = "Remove"
    /\ ilast.err = Nil
    /\ ilast.name \in Names
    /\ fs[ilast.name] = Absent
    /\ \E n \in Names : IsInstalled(n)

\* C7, in every step: an Update of a name that is not installed returns
\* NotInstalled and leaves the disk as it is.
C7_UpdateStep ==
    (ilast'.op = "Update" /\ ~IsInstalled(ilast'.name)) =>
        /\ ilast'.err = Err("NotInstalled", ilast'.name)
        /\ fs' = fs
        /\ targetExists' = targetExists

\* C7: Update(name) of a name that is not installed fails with NotInstalled and
\* changes nothing on disk, also when the directory is there without SKILL.md
\* and when the registry has the name.
C7_UpdateNeedsInstall == [][C7_UpdateStep]_vars

\* C7's case: Update has refused a name that the registry has and whose
\* directory exists without SKILL.md.
C7_Witness ==
    /\ ilast.op = "Update"
    /\ ilast.err = Err("NotInstalled", ilast.name)
    /\ fs[ilast.name].kind = "dir"
    /\ ~IsInstalled(ilast.name)
    /\ Finds(regVer, ilast.name)

Returned(op) == batch.op = op /\ batch.pc = "done"

\* The listing of a batch call failed: one aggregate error, no work list
ListingFailed == batch.errors # <<>> /\ batch.errors[1].at = 0

\* The provider or the disk failed when the batch call asked for its work list
ListingFault == ListingFailed /\ batch.errors[1].err.subject = ""

\* The items of the work list that are (not) in the registry, in order
PresentItems == SelectSeq(batch.items, LAMBDA n : Finds(regVer, n))
AbsentItems == SelectSeq(batch.items, LAMBDA n : ~Finds(regVer, n))

\* Every failure of the batch call is that of a name the registry does not have
OnlyAbsentFail ==
    \A k \in 1..Len(batch.errors) :
        /\ batch.errors[k].at # 0
        /\ ~Finds(regVer, batch.items[batch.errors[k].at])

FailedAt == { batch.errors[k].at : k \in 1..Len(batch.errors) }

\* Each item handled so far is in exactly one of the two lists, once
EachItemOnce ==
    /\ Range(batch.installedAt) \cup FailedAt = 1..(batch.i - 1)
    /\ Range(batch.installedAt) \cap FailedAt = {}
    /\ Len(batch.installed) + Len(batch.errors) = batch.i - 1
    /\ Len(batch.installedAt) = Len(batch.installed)
    /\ \A k \in 1..Len(batch.installed) :
          batch.installed[k] = batch.items[batch.installedAt[k]]

\* C9 as first stated, in every state: when a batch call has returned (and the
\* provider and the disk have answered its listing), each item of its work list
\* is in exactly one of the two lists, and the lengths of the two lists add up
\* to the number of items.
C9_CountsAlways ==
    (batch.pc = "done" /\ ~ListingFault) =>
        /\ batch.i = Len(batch.items) + 1
        /\ EachItemOnce
        /\ Len(batch.installed) + Len(batch.errors) = Len(batch.items)

\* C9 amended, in every state: the same once the call has its work list; a call
\* whose listing failed or whose stack is empty returns one error and no success.
C9_CountsState ==
    /\ batch.pc = "run" =>
          /\ batch.i \in 1..Len(batch.items)
          /\ EachItemOnce
          /\ ENABLED Loop(TRUE)
    /\ batch.pc = "done" =>
          IF ListingFailed
          THEN /\ batch.items = <<>>
               /\ batch.installed = <<>>
               /\ Len(batch.errors) = 1
          ELSE /\ batch.i = Len(batch.items) + 1
               /\ EachItemOnce
               /\ Len(batch.installed) + Len(batch.errors) = Len(batch.items)

\* C9, in every step: a step of a running batch call handles the next item
\* whatever became of the one before, and the step for the last item returns.
C9_LoopStep ==
    batch.pc = "run" =>
        /\ batch'.i = batch.i + 1
        /\ batch'.items = batch.items
        /\ batch'.op = batch.op
        /\ batch'.pc = IF batch.i = Len(batch.items) THEN "done" ELSE "run"

\* C9 amended: a batch call handles every item of its work list once, never
\* stops at a failing item, accounts for each item in exactly one list, and
\* returns after as many steps as it has items (a running call can always take
\* its next step); without a work list it returns one aggregate error.
C9_EveryItemOnce == []C9_CountsState /\ [][C9_LoopStep]_vars

\* C9's case: a batch call has returned with a failure before its last item.
C9_Witness ==
    /\ batch.pc = "done"
    /\ Len(batch.items) = 3
    /\ batch.errors # <<>>
    /\ batch.errors[1].at = 1
    /\ Len(batch.installed) = 2

IsIncreasing(seq) == \A j, k \in 1..Len(seq) : j < k => seq[j] < seq[k]

\* Nothing stands in the way of installing the items of the work list
AllInstallable ==
    /\ ~ListingFailed
    /\ batch.nfaults = 0
    /\ \A k \in 1..Len(batch.items) : fs[batch.items[k]].kind # "file"

\* C10: the two lists of a batch call keep the order of the work list, which is
\* the argument for InstallMultiple and the index, or the part of it in the
\* stack, for InstallAll and InstallStack; when every skill can be installed,
\* InstallAll returns the names of the index in index order and no error.
C10_ListsKeepOrder ==
    batch.pc \in {"run", "done"} =>
        /\ IsIncreasing(batch.installedAt)
        /\ IsIncreasing([k \in 1..Len(batch.errors) |-> batch.errors[k].at])
        /\ \A k \in 1..Len(batch.installed) :
              batch.installed[k] = batch.items[batch.installedAt[k]]
        /\ (batch.op = "InstallAll" /\ ~ListingFailed) => batch.items = IndexAt(regVer)
        /\ (batch.op = "InstallStack" /\ ~ListingFailed) =>
              \E stack \in Stacks : batch.items = ListByStack(regVer, stack)
        /\ (Returned("InstallAll") /\ AllInstallable) =>
              (batch.installed = IndexAt(regVer) /\ batch.errors = <<>>)

\* C10's case: InstallAll has returned the names in index order, which is not
\* the sorted order.
C10_Witness ==
    /\ Returned("InstallAll")
    /\ batch.installed = <<"c", "a", "b">>
    /\ batch.errors = <<>>

\* C11, in every step: an InstallStack of a stack that matches no skill returns
\* at once with no success, one error that is not that of an item, and the disk
\* as it was.
C11_EmptyStackStep ==
    (batch'.op = "InstallStack" /\ batch.pc # "run") =>
        \A stack \in Stacks :
            (ListByStack(regVer, stack) = <<>> /\ InstallStack(stack)) =>
                /\ batch'.pc = "done"
                /\ batch'.installed = <<>>
                /\ Len(batch'.errors) = 1
                /\ batch'.errors[1].at = 0
                /\ fs' = fs
                /\ targetExists' = targetExists

\* C11: InstallStack(stack) where the stack matches zero skills, reported by the
\* provider as an error or as an empty list, returns an empty success list and
\* exactly one aggregate error and changes nothing on disk.
C11_EmptyStackOneError == [][C11_EmptyStackStep]_vars

\* C11's case: InstallStack has returned for a stack without skills, reported as
\* an empty list, next to an installed skill.
C11_Witness ==
    /\ Returned("InstallStack")
    /\ batch.items = <<>>
    /\ batch.installed = <<>>
    /\ Len(batch.errors) = 1
    /\ batch.errors[1].err = Err("EmptyStack", "testing")
    /\ \E n \in Names : IsInstalled(n)

\* C12: whenever Update(name) returns without error, the skill's directory holds
\* exactly the files the registry now has for it, each with its new content;
\* no file of the version installed before is left.
C12_UpdateReplacesAll ==
    (ilast.op = "Update" /\ ilast.err = Nil) =>
        fs[ilast.name] = Dir(FilesAt(regVer))

\* C12's case: an Update has succeeded at a snapshot whose file set is smaller
\* than that of the snapshot before, of which a sibling still holds the files.
C12_Witness ==
    /\ ilast.op = "Update"
    /\ ilast.err = Nil
    /\ regVer = 2
    /\ fs[ilast.name].files["SKILL.md"] = 2
    /\ fs[ilast.name].files["references/guide.md"] = 0
    /\ \E m \in Names \ {ilast.name} : fs[m] = Dir(FilesAt(1))

\* C13: whenever Install(name) returns without error, every file that GetFiles
\* returned for the skill is at its relative path under the skill's directory
\* with the content returned.
C13_FilesRoundTrip ==
    (ilast.op = "Install" /\ ilast.err = Nil) =>
        /\ fs[ilast.name].kind = "dir"
        /\ \A p \in RelPaths :
              FilesAt(regVer)[p] # 0 => fs[ilast.name].files[p] = FilesAt(regVer)[p]

\* C13's case: an Install has returned without error for a skill with a file in
\* a subdirectory, which is there with its content.
C13_Witness ==
    /\ ilast.op = "Install"
    /\ ilast.err = Nil
    /\ FilesAt(regVer)["references/guide.md"] # 0
    /\ fs[ilast.name].files["references/guide.md"] = FilesAt(regVer)["references/guide.md"]

\* C14, in every step: a Remove of a name that is not installed (its directory
\* is not there, or is there without SKILL.md) returns NotInstalled and leaves
\* the disk as it is.
C14_RemoveStep ==
    (ilast'.op = "Remove" /\ ~IsInstalled(ilast'.name)) =>
        /\ ilast'.err = Err("NotInstalled", ilast'.name)
        /\ fs' = fs
        /\ targetExists' = targetExists

\* C14: Remove(name) fails with NotInstalled and deletes nothing whenever
\* IsInstalled(name) is false; it deletes the directory only when
\* IsInstalled(name) holds.
C14_RemoveNeedsInstalled == [][C14_RemoveStep]_vars

\* C15, in every step: a Remove leaves what is at the path of every skill other
\* than the one named as it is.
C15_RemoveStep ==
    ilast'.op = "Remove" =>
        \A s \in Names \ {ilast'.name} :
            /\ fs'[s] = fs[s]
            /\ IsInstalledOn(Disk(targetExists', fs'), s) = IsInstalled(s)

\* C15: for every name passed to Remove, whether the call succeeds or fails, the
\* directory, the files and the installed status of every other skill are
\* unchanged.
C15_SiblingsUntouched == [][C15_RemoveStep]_vars

\* The errors of Install that Update returns as they are: Update has removed the
\* old directory and its Install has failed
InstallFailedInUpdate ==
    /\ ilast.op = "Update"
    /\ ilast.err.kind \in {"NotFound", "Fetch", "Mkdir", "Write"}

\* No file of the directory is other than what Install has just written
OnlyNewFiles(name) ==
    \A p \in RelPaths : fs[name].files[p] \in {0, FilesAt(regVer)[p]}

NoSubdirectories == ~targetExists \/ \A n \in Names : fs[n].kind # "dir"

\* C17: whenever the target directory does not exist or has no subdirectory,
\* ListInstalled() returns an empty list and no error.
C17_EmptyListNoError ==
    NoSubdirectories => ListInstalledResult(Here) = [list |-> <<>>, err |-> Nil]

\* C17's case: UpdateAll has called ListInstalled where there is no target
\* directory and has got an empty list and no error.
C17_Witness ==
    /\ ~targetExists
    /\ Returned("UpdateAll")
    /\ batch.items = <<>>
    /\ batch.errors = <<>>
    /\ ListInstalledResult(Here).err = Nil

C19_UpdateAllCall ==
    (batch'.op = "UpdateAll" /\ UpdateAll) =>
        /\ batch'.items = ListInstalledResult(Here).list
        /\ fs' = fs /\ targetExists' = targetExists
        /\ ~batch'.asked
        /\ batch'.installed = <<>> /\ batch'.errors = <<>>
        /\ batch'.pc = IF \E n \in Names : IsInstalled(n) THEN "run" ELSE "done"

\* C19, in every step of the loop of UpdateAll: the step is one Update of the
\* next name of the list, and the list stays what it was.
C19_UpdateAllLoop ==
    (batch.op = "UpdateAll" /\ batch.pc = "run") =>
        /\ batch'.items = batch.items
        /\ batch'.i = batch.i + 1
        /\ \E o \in UpdateOutcomes(Here, regVer, batch.items[batch.i], TRUE) :
              /\ fs' = o.disk.fs
              /\ targetExists' = o.disk.target
              /\ (o.err = Nil) = (Len(batch'.installed) = Len(batch.installed) + 1)

\* C19, in every state: the work list of UpdateAll is the skills that were
\* installed when it was called, each once, and a call that has returned has
\* been through all of them.
C19_UpdateAllState ==
    (batch.op = "UpdateAll" /\ ~ListingFailed) =>
        /\ Range(batch.items) = batch.pre
        /\ Len(batch.items) = Cardinality(batch.pre)
        /\ EachItemOnce
        /\ batch.pc = "done" => batch.i = Len(batch.items) + 1
        /\ batch.pre = {} => (batch.pc = "done" /\ ~batch.asked)

\* C19: UpdateAll() with no skill installed returns two empty lists, changes
\* nothing on disk and makes no provider call; otherwise it calls Update once
\* on each name that ListInstalled() returned when it began.
C19_UpdateAllEachOnce ==
    /\ []C19_UpdateAllState
    /\ [][C19_UpdateAllCall]_vars
    /\ [][C19_UpdateAllLoop]_vars

\* C19's case: UpdateAll has returned at once where the target directory holds
\* no installed skill, only a directory without SKILL.md, while the registry
\* has that name.
C19_Witness ==
    /\ Returned("UpdateAll")
    /\ batch.items = <<>> /\ batch.installed = <<>> /\ batch.errors = <<>>
    /\ ~batch.asked
    /\ \E n \in Names : fs[n] = Dir(NoFilesIn) /\ Finds(regVer, n)

\* C20: after Set(ref, X) and then Set(ref, Y), and for as long as ttl after the
\* second Set, Get(ref) returns (Y, found = true), and the entry's fetchedAt is
\* the time of the second Set, however old the entry of the first Set was.
C20_SetOverwrites ==
    (/\ clast.op = "Set"
     /\ cprev.op = "Set"
     /\ cprev.ref = clast.ref
     /\ now - clast.at <= DefaultCacheTTL)
    => /\ GetResult(clast.ref) = [data |-> clast.data, found |-> TRUE]
       /\ LoadErr(clast.ref) = "nil"
       /\ LastEntry.FetchedAt.wall = clast.at

\* C21, in every state after Clear() and before the next call: Clear has
\* returned no error, the cache directory is gone with every entry, and Get(ref)
\* returns found = false for every ref.
C21_ClearState ==
    clast.op = "Clear" =>
        /\ clast.err = "nil"
        /\ ~cacheDirExists
        /\ cacheFiles = NoFiles
        /\ \A r \in Refs : GetResult(r) = Miss

\* C21, in every step: the Set that follows a Clear makes the directory anew and
\* does what it does on a new cache: it stores the entry, which Get then finds,
\* unless the operating system refuses the file name of the ref.
C21_SetAfterClear ==
    (clast.op = "Clear" /\ clast'.op = "Set") =>
        /\ cacheDirExists'
        /\ clast'.err = IF PathOk(getCachePath(clast'.ref)) THEN "nil" ELSE "EINVAL"
        /\ \A r \in Refs :
              (r = clast'.ref /\ clast'.err = "nil") =>
                  GetResult(r)' = [data |-> clast'.data, found |-> TRUE]

\* C21: after Clear(), Get(ref) returns found = false for every ref, whatever
\* entries there were and whether fresh or expired; Clear succeeds also on an
\* empty cache and without a cache directory, and a later Set works again.
C21_ClearEmptiesCache == []C21_ClearState /\ [][C21_SetAfterClear]_vars

\* C21's case: Clear has returned after a Set whose entry had expired, and Get
\* of that ref finds nothing.
C21_Witness ==
    /\ clast.op = "Clear"
    /\ cprev.op = "Set"
    /\ cprev.err = "nil"
    /\ now - cprev.at > DefaultCacheTTL
    /\ GetResult(cprev.ref) = Miss

\* C22 as first stated, in every step: after ClearRef(ref), Get(ref) returns
\* found = false, and Get(r) returns what it returned before for every ref r
\* other than ref.
C22_OtherRefsStep ==
    (clast'.op = "ClearRef" /\ now' = now) =>
        \A r \in Refs :
            /\ r = clast'.ref => GetResult(r)' = Miss
            /\ r # clast'.ref => GetResult(r)' = GetResult(r)

\* C22 as first stated: ClearRef(ref) deletes the entry of that one ref only.
C22_OtherRefsKept == [][C22_OtherRefsStep]_vars

\* C22 amended, in every step: after ClearRef(ref), Get returns found = false
\* for ref and for every ref with the same sanitized file name, and Get(r)
\* returns what it returned before for every ref r with another file name.
C22_OtherFilesStep ==
    (clast'.op = "ClearRef" /\ now' = now) =>
        \A r \in Refs :
            /\ getCachePath(r) = getCachePath(clast'.ref) => GetResult(r)' = Miss
            /\ getCachePath(r) # getCachePath(clast'.ref) => GetResult(r)' = GetResult(r)

\* C22 amended: ClearRef(ref) deletes the one entry file of ref's sanitized
\* file name only.
C22_OtherFilesKept == [][C22_OtherFilesStep]_vars

\* C22's case: ClearRef has deleted the entry of its ref, which Get no longer
\* finds, while Get still finds the entry of another ref.
C22_Witness ==
    /\ clast.op = "ClearRef"
    /\ clast.err = "nil"
    /\ cprev.op = "Set"
    /\ cprev.ref = clast.ref
    /\ GetResult(clast.ref) = Miss
    /\ \E r \in Refs \ {clast.ref} : GetResult(r).found

\* The cache directory and its files are left as they are
CacheUnchanged == cacheFiles' = cacheFiles /\ cacheDirExists' = cacheDirExists

\* C23 as first stated, in every step: a ClearRef(ref) where no Set of ref has
\* gone uncleared returns an error and leaves the cache as it is, and one where
\* a Set of ref has gone uncleared succeeds, however old the entry.
C23_PerRefStep ==
    \A ref \in Refs :
        ClearRef(ref) =>
            /\ ~liveRef[ref].set => (clast'.err # "nil" /\ CacheUnchanged)
            /\ liveRef[ref].set => clast'.err = "nil"

\* C23 as first stated: ClearRef(ref) fails exactly when ref has no entry.
C23_FailsWithoutEntry == [][C23_PerRefStep]_vars

\* C23 amended, in every step: a ClearRef(ref) where no Set of a ref with the
\* same sanitized file name has gone uncleared returns an error and leaves the
\* cache as it is, and one where such a Set has gone uncleared succeeds and
\* deletes the file, however old the entry.
C23_PerFileStep ==
    \A ref \in Refs :
        ClearRef(ref) =>
            LET path == getCachePath(ref) IN
            /\ ~liveFile[path].set => (clast'.err # "nil" /\ CacheUnchanged)
            /\ liveFile[path].set =>
                  /\ clast'.err = "nil"
                  /\ cacheFiles' = WithoutFile(cacheFiles, path)
                  /\ path \notin DOMAIN cacheFiles'

\* C23 amended: ClearRef(ref) fails exactly when there is no entry file of
\* ref's sanitized file name.
C23_FailsWithoutFile == [][C23_PerFileStep]_vars

\* C23's case: ClearRef has failed with "no such file" for a ref that has no
\* entry, and the entry of another ref is still there.
C23_Witness ==
    /\ clast.op = "ClearRef"
    /\ clast.err = "ENOENT"
    /\ ~liveRef[clast.ref].set
    /\ cprev.op = "none"
    /\ cacheFiles # NoFiles

\* C25: whenever Install(name) returns NotFound, the registry does not have the
\* name: a lookup that failed for another reason (the transport) is reported as
\* an error of another kind, so that a caller can tell the two apart.
C25_NotFoundOnlyWhenAbsent ==
    (ilast.op = "Install" /\ ilast.err.kind = "NotFound") =>
        ~Finds(regVer, ilast.name)

\* C26: whenever Install(name) has returned without error, a second
\* Install(name) on the same registry, with the provider and the disk answering,
\* can only succeed, and it leaves every file and directory as the first left it.
C26_InstallIdempotent ==
    (ilast.op = "Install" /\ ilast.err = Nil) =>
        InstallOutcomes(Here, regVer, ilast.name, FALSE) = { Outcome(Nil, Here) }

\* C26's case: Install has succeeded over a directory that held a file of an
\* older version which the registry no longer has, next to other skills.
C26_Witness ==
    /\ ilast.op = "Install"
    /\ ilast.err = Nil
    /\ fs[ilast.name].files["SKILL.md"] = FilesAt(regVer)["SKILL.md"]
    /\ FilesAt(regVer)["references/guide.md"] = 0
    /\ fs[ilast.name].files["references/guide.md"] # 0
    /\ \E n \in Names \ {ilast.name} : IsInstalled(n)

\* C27, in every step that is a single call on a skill: the skill's status,
\* which is IsInstalled(name), goes to Installed by a successful Install, from
\* Installed to Absent by a successful Remove and from Installed to Installed by
\* a successful Update, whose Remove leaves the skill Absent before its Install
\* begins; Remove and Update of an Absent skill fail and leave it Absent.
C27_StatusStep ==
    LET name == ilast'.name
        was  == IsInstalled(name)
        is   == IsInstalledOn(Disk(targetExists', fs'), name)
    IN  /\ (ilast'.op = "Install" /\ ilast'.err = Nil) => is
        /\ (ilast'.op = "Remove" /\ ilast'.err = Nil) => (was /\ ~is)
        /\ (ilast'.op = "Update" /\ ilast'.err = Nil) => (was /\ is)
        /\ (ilast'.op = "Update" /\ was) =>
              \A r \in RemoveOutcomes(Here, name, FALSE) : ~IsInstalledOn(r.disk, name)
        /\ (ilast'.op \in {"Remove", "Update"} /\ ~was) => (ilast'.err # Nil /\ ~is)

\* C27: over any sequence of Install, Remove and Update calls each skill's
\* status follows the state machine Absent -> Installed (Install), Installed ->
\* Absent (Remove), Installed -> Installed' (Update, through Absent); Remove and
\* Update on an Absent skill fail and leave it Absent.
C27_StatusMachine == [][C27_StatusStep]_vars

\* C28: in every state and for every name, an Install(name) that ends with
\* NotFound or with the error of fetching the files leaves the target directory
\* and everything in it, the skill's own directory included, as it was.
C28_FailedLookupWritesNothing ==
    \A name \in Names :
        \A o \in InstallOutcomes(Here, regVer, name, TRUE) :
            o.err.kind \in {"NotFound", "Fetch"} => o.disk = Here

\* C28's case: Install has failed to fetch the files of a skill that is
\* installed with the files of an older version, which are still there.
C28_Witness ==
    /\ ilast.op = "Install"
    /\ ilast.err.kind = "Fetch"
    /\ regVer = 2
    /\ fs[ilast.name] = Dir(FilesAt(1))
    /\ \E n \in Names \ {ilast.name} : IsInstalled(n)

-----------------------------------------------------------------------------
(* The update command's claims *)

\* The command has been through its whole work list and has printed one line
\* per item: a success line with the name for an item that was updated, a
\* failure line with the error, which names the item, for one that was not
AllProcessedAndPrinted ==
    /\ batch.i = Len(batch.items) + 1
    /\ EachItemOnce
    /\ Len(RunUpdateOutput) = Len(batch.items)
    /\ \A k \in 1..Len(batch.items) :
          \/ /\ k \in Range(batch.installedAt)
             /\ Line("ok", Err("nil", batch.items[k])) \in Range(RunUpdateOutput)
          \/ /\ k \in FailedAt
             /\ \E l \in Range(RunUpdateOutput) :
                   l.mark = "failed" /\ l.what.subject = batch.items[k]

\* C24 as first stated: when the update command has returned, it has returned
\* success exactly when its error list is empty, and it has processed and
\* printed every item of its work list whatever failed.
C24_ExitIffNoErrors ==
    Returned("runUpdate") =>
        /\ RunUpdateReturn = Nil <=> batch.errors = <<>>
        /\ ~ListingFailed => AllProcessedAndPrinted

\* C24 amended: when the update command has returned, it has returned success
\* only if its error list is empty; when it got as far as its work list (the
\* registry, the working directory and the list of installed skills were there)
\* it has returned success exactly when the error list is empty, and it has
\* processed and printed every item of its work list whatever failed.
C24_ExitOnlyIfNoErrors ==
    Returned("runUpdate") =>
        /\ RunUpdateReturn = Nil => batch.errors = <<>>
        /\ batch.setup = Nil => (RunUpdateReturn = Nil <=> batch.errors = <<>>)
        /\ batch.setup # Nil => (batch.errors = <<>> /\ RunUpdateOutput = <<>>)
        /\ (batch.setup = Nil /\ ~ListingFailed) => AllProcessedAndPrinted
        /\ ListingFailed => RunUpdateOutput = <<Line("failed", batch.errors[1].err)>>

\* C24's case: the update command has returned failure after an item that
\* failed and a later item that was updated, and has printed both.
C24_Witness ==
    /\ Returned("runUpdate")
    /\ batch.setup = Nil
    /\ RunUpdateReturn # Nil
    /\ Len(batch.errors) = 1
    /\ Len(batch.installed) >= 1
    /\ batch.errors[1].at < batch.installedAt[Len(batch.installedAt)]
    /\ Len(RunUpdateOutput) = Len(batch.items)

-----------------------------------------------------------------------------
(* The claims about Install's loop *)

\* Install has returned the error of a directory creation or of a file write
InstallStoppedAtFile ==
    /\ Returned("Install")
    /\ batch.errors # <<>>
    /\ batch.errors[1].at >= 1

\* The file at which Install stopped
StoppedAt == batch.items[batch.errors[1].at]

\* When Install has stopped at a file: it returns that one error, the files
\* written are those before it in the order of the loop, and each is in the
\* skill's directory with its new content
WrittenFilesStay ==
    /\ Len(batch.errors) = 1
    /\ batch.errors[1].err.kind \in {"Mkdir", "Write"}
    /\ batch.i = batch.errors[1].at
    /\ batch.installed = SubSeq(batch.items, 1, batch.i - 1)
    /\ \A p \in Range(batch.installed) :
          fs[batch.skill].files[p] = FilesAt(regVer)[p]

\* C29, in every step of Install's loop: the step touches the file it is at and
\* no other, and a step that fails is the last one.
C29_WriteStep ==
    (batch.op = "Install" /\ batch.pc = "run") =>
        /\ \A n \in Names \ {batch.skill} : fs'[n] = fs[n]
        /\ \A q \in RelPaths \ {batch.items[batch.i]} :
              fs'[batch.skill].files[q] = fs[batch.skill].files[q]
        /\ batch'.errors # <<>> =>
              /\ batch'.pc = "done"
              /\ batch'.installed = batch.installed

\* C29 as first stated, in every state: when Install has stopped at a file, the
\* files written before it are on disk, and IsInstalled(name) holds exactly when
\* SKILL.md is one of them.
C29_DocWrittenState ==
    InstallStoppedAtFile =>
        /\ WrittenFilesStay
        /\ IsInstalled(batch.skill) <=> "SKILL.md" \in Range(batch.installed)

\* C29 as first stated: Install stops at the file that fails, keeps what it has
\* written, writes no more, and is installed exactly when SKILL.md was written.
C29_InstalledIffDocWritten == []C29_DocWrittenState /\ [][C29_WriteStep]_vars

\* C29 amended, in every state: when Install has stopped at a file, the files
\* written before it are on disk, and IsInstalled(name) holds exactly when
\* SKILL.md is in the directory: it is one of the files written, or the skill
\* was installed before the call, or it is the file at which Install stopped
\* and the failed write has left it behind.
C29_DocOnDiskState ==
    InstallStoppedAtFile =>
        /\ WrittenFilesStay
        /\ IsInstalled(batch.skill) <=>
              \/ "SKILL.md" \in Range(batch.installed)
              \/ batch.skill \in batch.pre
              \/ StoppedAt = "SKILL.md" /\ fs[batch.skill].files["SKILL.md"] = Truncated

\* C29 amended: Install stops at the file that fails, keeps what it has written,
\* writes no more, and is installed exactly when SKILL.md is on disk afterwards.
C29_InstalledIffDocOnDisk == []C29_DocOnDiskState /\ [][C29_WriteStep]_vars

\* C29's case: Install of a skill that was not installed has written SKILL.md
\* and has stopped at the second file, which is not there; the skill counts as
\* installed.
C29_Witness ==
    /\ InstallStoppedAtFile
    /\ batch.installed = <<"SKILL.md">>
    /\ StoppedAt = "references/guide.md"
    /\ fs[batch.skill].files["references/guide.md"] = 0
    /\ batch.skill \notin batch.pre
    /\ IsInstalled(batch.skill)

\* C30, in every step of Install's loop: whatever the key of the file, the step
\* leaves what is at the path of every other skill as it is.
C30_WriteStep ==
    (batch.op = "Install" /\ batch.pc = "run") =>
        \A n \in Names \ {batch.skill} : fs'[n] = fs[n]

\* C30: Install(name) creates or modifies files only inside the directory of the
\* skill, for every key that GetFiles may return: no file of a sibling skill's
\* directory is created or overwritten.
C30_WritesOnlyOwnDirectory == [][C30_WriteStep]_vars

-----------------------------------------------------------------------------
(* More claims about the cache *)

\* The string with each '/', '\' and ':' replaced by '_', as code points
CharMap(s) == [k \in 1..Len(s) |-> IF s[k] \in {47, 92, 58} THEN 95 ELSE s[k]]

\* The bytes of a string of code points below U+0800 in UTF-8, which is how Go
\* holds a string
RECURSIVE Utf8(_)
Utf8(s) ==
    IF s = <<>> THEN <<>>
    ELSE (IF Head(s) < 128 THEN <<Head(s)>>
          ELSE <<192 + (Head(s) \div 64), 128 + (Head(s) % 64)>>) \o Utf8(Tail(s))

\* C31: for the ref of every cache call, sanitizeFilename returns the string of
\* as many characters in which each '/', '\' and ':' has become '_' and every
\* other character, also one outside ASCII, is the one of the ref.
C31_CharacterWiseMap ==
    clast.op \in {"Get", "Set", "ClearRef"} =>
        sanitizeFilename(clast.ref) = Utf8(CharMap(clast.ref))

\* C32: two distinct refs with the same sanitized file name share one entry:
\* while the latest Set that wrote the file (under either ref) is at most ttl
\* old, Get of either ref returns found = true with the index of that Set, also
\* when nothing was Set for the requested ref, and a Get that found an index
\* has found the one of that Set whatever ref is stored in the entry.
C32_CollidingRefsShareEntry ==
    /\ \A r1 \in Refs, r2 \in Refs :
           LET e == liveFile[getCachePath(r1)] IN
           (/\ r1 # r2
            /\ getCachePath(r1) = getCachePath(r2)
            /\ e.set
            /\ e.ref = r1
            /\ now - e.at <= DefaultCacheTTL)
           => /\ GetResult(r2) = [data |-> e.data, found |-> TRUE]
              /\ GetResult(r1) = GetResult(r2)
    /\ (/\ clast.op = "Get"
        /\ cprev.op = "Set"
        /\ cprev.err = "nil"
        /\ getCachePath(cprev.ref) = getCachePath(clast.ref)
        /\ clast.at - cprev.at <= DefaultCacheTTL)
       => (clast.found /\ clast.data = cprev.data)

\* C32's case: Set(r1, X) and then, within ttl, a Get(r2) of another ref for
\* which nothing was Set.
C32_Witness ==
    /\ clast.op = "Get"
    /\ cprev.op = "Set"
    /\ cprev.err = "nil"
    /\ cprev.ref # clast.ref
    /\ getCachePath(cprev.ref) = getCachePath(clast.ref)
    /\ ~liveRef[clast.ref].set
    /\ clast.found
    /\ clast.data = cprev.data

-----------------------------------------------------------------------------
(* More claims about the installer *)

\* Each failed item has one entry in the error list, and the entry names it
NamedEntryPerFailure ==
    /\ \A k \in 1..Len(batch.errors) :
           batch.errors[k].at # 0 =>
               batch.errors[k].err.subject = batch.items[batch.errors[k].at]
    /\ \A j \in 1..Len(batch.errors), k \in 1..Len(batch.errors) :
           (batch.errors[j].at # 0 /\ batch.errors[j].at = batch.errors[k].at) => j = k
    /\ \A n \in 1..(batch.i - 1) :
           (\E k \in 1..Len(batch.installedAt) : batch.installedAt[k] = n)
               # (\E k \in 1..Len(batch.errors) : batch.errors[k].at = n)

\* C33: in InstallStack and InstallAll, as in InstallMultiple, each skill whose
\* Install fails has exactly one entry in the error list, and that entry names
\* the skill, whatever made Install fail.
C33_StackAndAllNameFailures ==
    batch.op \in {"InstallStack", "InstallAll"} => NamedEntryPerFailure

\* The same for InstallMultiple
C33_MultipleNamesFailures ==
    batch.op = "InstallMultiple" => NamedEntryPerFailure

-----------------------------------------------------------------------------
(* The claims about concurrent calls of the cache *)

\* C34: a Get(ref) that runs while another process runs Set(ref, X) returns
\* found = false, or the whole index stored before, or the whole X: never an
\* index that no Set has stored.
C34_GetNeverTorn ==
    getter.pc = "done" =>
        \/ getter.result = Miss
        \/ (getter.result.found /\ getter.result.data \in getter.allowed)

\* C35: when Set(ref, X) and Set(ref, Y) have run at the same time and both
\* have returned nil, a Get(ref) that follows them within ttl returns
\* found = true with X or with Y: not a miss, not a mix of the two.
C35_LastWriterWins ==
    (getter.pc = "done" /\ getter.quiet) =>
        (getter.result.found /\ getter.result.data \in getter.allowed)

\* Two Sets that do not run at the same time leave the entry of the later one
C35_SequentialSetsWin ==
    (InProgress = {} /\ Cardinality(cacheFile.stored) = 1) =>
        \A p \in cacheFile.stored :
            GetResultOf(cacheFile.blocks) = [data |-> setters[p].index, found |-> TRUE]

-----------------------------------------------------------------------------
(* More claims about UpdateAll and Install *)

\* The errors of the disk: a removal, a directory creation, a write or a
\* directory listing that failed
DiskErrors == {"RemoveOld", "Mkdir", "Write", "ReadDir"}

\* UpdateAll has returned and the disk has failed none of its calls
UpdateAllReturned ==
    /\ batch.op = "UpdateAll"
    /\ batch.pc = "done"
    /\ \A k \in 1..Len(batch.errors) : batch.errors[k].err.kind \notin DiskErrors

\* C36: when UpdateAll has returned and no operation on the disk has failed,
\* the installed skills are exactly those of the returned updated list, every
\* skill of the error list was installed before the call and is not installed
\* any more, and no skill is installed that was not installed before the call.
C36_InstalledAreTheUpdated ==
    UpdateAllReturned =>
        /\ { n \in Names : IsInstalled(n) } = Range(batch.installed)
        /\ \A k \in 1..Len(batch.errors) :
               /\ batch.errors[k].at # 0
               /\ batch.items[batch.errors[k].at] \in batch.pre
               /\ ~IsInstalled(batch.items[batch.errors[k].at])
        /\ { n \in Names : IsInstalled(n) } \subseteq batch.pre

\* C36's case: UpdateAll has returned one skill updated and another failed,
\* with no failure of the disk.
C36_Witness ==
    /\ UpdateAllReturned
    /\ batch.installed # <<>>
    /\ batch.errors # <<>>

\* The files of the skill's directory that the registry's file set does not have
StaleFiles(name) ==
    { p \in RelPaths : FilesAt(regVer)[p] = 0 /\ fs[name].files[p] # 0 }

\* C37: Install(name) on an installed skill, without a Remove before it, gives
\* every file of the new file set its new content and keeps every other file
\* of the skill's directory, where Update(name) leaves the new file set alone;
\* the two leave the same directory exactly when the directory holds no file
\* outside the new set.
C37_InstallOverInstallKeepsFiles ==
    \A name \in Names :
        (IsInstalled(name) /\ Finds(regVer, name)) =>
            /\ \A o \in InstallOutcomes(Here, regVer, name, FALSE) :
                   /\ o.err = Nil
                   /\ \A p \in RelPaths :
                          o.disk.fs[name].files[p] =
                              IF FilesAt(regVer)[p] # 0 THEN FilesAt(regVer)[p]
                              ELSE fs[name].files[p]
            /\ \A u \in UpdateOutcomes(Here, regVer, name, FALSE) :
                   /\ u.err = Nil
                   /\ u.disk.fs[name].files = FilesAt(regVer)
            /\ (InstallOutcomes(Here, regVer, name, FALSE)
                    = UpdateOutcomes(Here, regVer, name, FALSE))
               <=> (StaleFiles(name) = {})

\* C37's case: after a change of the registry, Install has succeeded over an
\* installed skill and has left a file that Update would remove.
C37_Witness ==
    /\ ilast.op = "Install"
    /\ ilast.err = Nil
    /\ StaleFiles(ilast.name) # {}
    /\ \A u \in UpdateOutcomes(Here, regVer, ilast.name, FALSE) :
           u.err = Nil /\ StaleFiles(ilast.name) \cap
                              { p \in RelPaths : u.disk.fs[ilast.name].files[p] # 0 } = {}

====
